---------------------------- MODULE Spec2Model ----------------------------
(***************************************************************************)
(* Model of orchestrate() in orchestrate_analysis.py: one sequential run   *)
(* of the ranking pipeline.  The collaborators (run_momentum_analysis,     *)
(* generate_signal_report, the processed and raw rankers, the display      *)
(* functions, os.makedirs, open, json.dump) are external: each call draws  *)
(* its outcome from a small set (a value returned, or an exception of a    *)
(* class derived from Exception raised).                                   *)
(* Besides the variables of orchestrate() and the file system, the model   *)
(* keeps a record of the run: calls, logged, reached, the state of the     *)
(* file and directory before the run (prior_file, prior_dir_exists), and   *)
(* other_run_file: the snapshot file of a second run that receives the     *)
(* same outcomes from every call but started from the other content of the *)
(* snapshot file.                                                          *)
(***************************************************************************)
EXTENDS Integers, Sequences, FiniteSets, TLC

VARIABLES pc, all_indicator_data, quant_report_df, momentum_display_df,
          reversal_display_df, initial_momentum_ranked_data,
          initial_reversal_ranked_data, output_dict, output_dir_exists,
          snapshot_file, prior_file, prior_dir_exists, other_run_file, calls,
          logged, reached

vars == <<pc, all_indicator_data, quant_report_df, momentum_display_df,
          reversal_display_df, initial_momentum_ranked_data,
          initial_reversal_ranked_data, output_dict, output_dir_exists,
          snapshot_file, prior_file, prior_dir_exists, other_run_file, calls,
          logged, reached>>

(***************************************************************************)
(* Configuration constants of the module.                                  *)
(***************************************************************************)
TOP_N_MOMENTUM == 10

TOP_N_REVERSAL == 5

\* Longest raw-ranked table a raw ranker returns in the model.
MaxRows == 11

(***************************************************************************)
(* Python values.                                                          *)
(***************************************************************************)
None == [type |-> "NoneType"]

IsNone(v) == v.type = "NoneType"

\* A pandas DataFrame: the class and names of its index, its column names,
\* and its rows, each row a key (one value per index level) and one value
\* per column.
DataFrame(index_type, index_names, columns, rows) ==
    [type |-> "DataFrame", index_type |-> index_type,
     index_names |-> index_names, columns |-> columns, rows |-> rows]

\* pd.DataFrame(): no rows, no columns.
EmptyDataFrame == DataFrame("RangeIndex", <<>>, <<>>, <<>>)

IsDataFrame(v) == v.type = "DataFrame"

\* DataFrame.empty: true when either axis has length 0.
Empty(df) == Len(df.rows) = 0 \/ Len(df.columns) = 0

Min(a, b) == IF a <= b THEN a ELSE b

\* DataFrame.head(n): the first n rows, in the table's order.
head(df, n) == [df EXCEPT !.rows = SubSeq(df.rows, 1, Min(n, Len(df.rows)))]

\* DataFrame.reset_index() raises ValueError when an index level's name is
\* already the name of a column.
ResetIndexRaises(df) ==
    \E i \in 1..Len(df.index_names), j \in 1..Len(df.columns) :
        df.index_names[i] = df.columns[j]

\* DataFrame.reset_index(): the index levels become the leading columns and
\* the rows are numbered 0, 1, ...
ResetIndex(df) ==
    DataFrame("RangeIndex", <<>>, df.index_names \o df.columns,
              [i \in 1..Len(df.rows) |->
                  [key |-> <<i - 1>>, vals |-> df.rows[i].key \o df.rows[i].vals]])

\* DataFrame.to_dict(orient="records"): one {column: value} mapping per row.
ToDictRecords(df) ==
    [i \in 1..Len(df.rows) |->
        [j \in 1..Len(df.columns) |->
            [name |-> df.columns[j], value |-> df.rows[i].vals[j]]]]

PyInt(n) == [type |-> "int", n |-> n]

PyStr(s) == [type |-> "str", text |-> s]

\* A datetime.date, and str() of it, which json.dump's default=str applies to
\* a value JSON cannot represent.
Date(n) == [type |-> "date", ordinal |-> n]

IsoDays == <<"2024-01-02", "2024-01-03">>

JsonValue(v) ==
    IF v.type = "date" THEN PyStr(IsoDays[v.ordinal])
    ELSE v

\* The JSON document json.dump writes for output_dict: the sections in
\* insertion order, each a list of flat records, dates turned to strings.
JsonDocument(d) ==
    [k \in 1..Len(d) |->
        [key |-> d[k].key,
         value |-> [i \in 1..Len(d[k].value) |->
                      [j \in 1..Len(d[k].value[i]) |->
                          [name |-> d[k].value[i][j].name,
                           value |-> JsonValue(d[k].value[i][j].value)]]]]]

(***************************************************************************)
(* Outcomes of the external calls.                                         *)
(***************************************************************************)
Return(v) == [kind |-> "return", val |-> v]

Raise(e) == [kind |-> "raise", exc |-> e]

\* The classes of the exceptions the collaborators raise; all derive from
\* Exception.
ExceptionClasses == {"ValueError", "AttributeError", "OSError"}

\* The index the panel is expected to have: MultiIndex [symbol, date].
PanelIndex == <<"symbol", "date">>

PanelRows ==
    [i \in 1..2 |-> [key |-> <<PyStr(ToString(i)), Date(1)>>, vals |-> <<PyInt(50 + i)>>]]

ValidPanel == DataFrame("MultiIndex", PanelIndex, <<"rsi">>, PanelRows)

\* What run_momentum_analysis() gives as its second result.
IndicatorOutcomes ==
    { Raise("ValueError"),
      Return(None),
      Return(DataFrame("MultiIndex", PanelIndex, <<"rsi">>, <<>>)),
      Return(DataFrame("Index", <<"date">>, <<"rsi">>,
                       <<[key |-> <<Date(1)>>, vals |-> <<PyInt(51)>>]>>)),
      Return(DataFrame("MultiIndex", <<"symbol", "date", "timeframe">>, <<"rsi">>,
                       <<[key |-> <<PyStr("1"), Date(1), PyStr("1d")>>,
                          vals |-> <<PyInt(51)>>]>>)),
      Return(ValidPanel) }

\* What generate_signal_report() gives.
StatsReport ==
    DataFrame("RangeIndex", <<>>, <<"signal", "horizon", "success_rate">>,
              <<[key |-> <<0>>, vals |-> <<PyStr("momentum"), PyInt(3), PyInt(61)>>]>>)

StatsOutcomes ==
    { Raise("ValueError"),
      Return(None),
      Return(DataFrame("RangeIndex", <<>>, <<"signal", "horizon", "success_rate">>, <<>>)),
      Return(StatsReport) }

\* Row i of a ranked table of a family: identity (symbol, date) and a score.
\* The scores are in no sorted order.
RankedRow(family, i) ==
    [key |-> <<PyStr(ToString(i)), Date(1 + (i % 2))>>,
     vals |-> <<PyInt(IF family = "momentum" THEN (i * 7) % 5 ELSE (i * 3) % 7)>>]

RankedTable(family, columns, n) ==
    DataFrame("MultiIndex", PanelIndex, columns, [i \in 1..n |-> RankedRow(family, i)])

\* What get_processed_<family>_results() gives.
ProcessedOutcomes(family) ==
    { Raise("ValueError"),
      Return(None),
      Return(RankedTable(family, <<"composite_score">>, 0)),
      Return(RankedTable(family, <<"composite_score">>, 2)) }

\* Lengths of the raw-ranked tables: around both top-N limits.
RawLens == {1, TOP_N_REVERSAL, TOP_N_REVERSAL + 1, TOP_N_MOMENTUM, MaxRows}

\* What rank_<family>_signals() gives: an exception, None, a table without
\* rows, a table without columns (index only), a table one of whose columns
\* has the name of an index level, or a ranked table.
RawOutcomes(family) ==
    { Raise("ValueError"),
      Return(None),
      Return(RankedTable(family, <<"score">>, 0)),
      Return(DataFrame("MultiIndex", PanelIndex, <<>>,
                       <<[key |-> <<PyStr("1"), Date(1)>>, vals |-> <<>>]>>)),
      Return(RankedTable(family, <<"symbol">>, 1)) }
    \cup { Return(RankedTable(family, <<"score">>, n)) : n \in RawLens }

(***************************************************************************)
(* The except clauses of orchestrate(): each is "except Exception".        *)
(***************************************************************************)
ExceptException(exc) == exc \in ExceptionClasses

\* What each except clause (and the empty-report branch) puts in place of
\* the missing result: pd.DataFrame().
\* The report left as None.
QuantReportFallback_None == None

QuantReportFallback == EmptyDataFrame

\* The momentum set left as None.
MomentumFallback_None == None

MomentumFallback == EmptyDataFrame

\* The reversal set left as None.
ReversalFallback_None == None

ReversalFallback == EmptyDataFrame

\* except clause of the generate_signal_report try block
ExceptQuantReport(exc) == ExceptException(exc)

\* The momentum clause written for one class only.
ExceptMomentum_OSErrorOnly(exc) == exc = "OSError"

\* except clause of the momentum processing try block
ExceptMomentum(exc) == ExceptException(exc)

\* except clause of the reversal processing try block
ExceptReversal(exc) == ExceptException(exc)

\* The re-ranking clause written for one class only.
ExceptRerank_OSErrorOnly(exc) == exc = "OSError"

\* except clause of the raw re-ranking try block
ExceptRerank(exc) == ExceptException(exc)

\* The JSON clause written for one class only.
ExceptJson_ValueErrorOnly(exc) == exc = "ValueError"

\* except clause of the JSON save try block
ExceptJson(exc) == ExceptException(exc)

\* The outermost clause written for one class only.
ExceptOuter_OSErrorOnly(exc) == exc = "OSError"

\* except clause of the outermost try block
ExceptOuter(exc) == ExceptException(exc)

(***************************************************************************)
(* The record of the run: the external calls made, with their arguments    *)
(* and outcomes, and the warning, error and branch messages logged.        *)
(***************************************************************************)
Call(op, args, out) == [op |-> op, args |-> args, out |-> out]

Msg(level, text) == [level |-> level, text |-> text]

\* The snapshot file: absent, or the sections written so far and whether
\* the document is complete.
AbsentFile == [exists |-> FALSE, complete |-> FALSE, items |-> <<>>]

FileWith(items, complete) == [exists |-> TRUE, complete |-> complete, items |-> items]

\* open(JSON_OUTPUT_PATH, 'r+'): the file is opened as it is, not truncated.
OpenForWrite_NoTruncate(file) == FileWith(file.items, file.complete)

\* open(JSON_OUTPUT_PATH, 'a'): the content stays and writes go after it.
OpenForWrite_Append(file) == FileWith(file.items, FALSE)

\* open(JSON_OUTPUT_PATH, 'w') on a file: whatever it held is gone.
OpenForWrite(file) == FileWith(<<>>, FALSE)

\* A snapshot a previous run left: both sections, one record each.
PriorDocument ==
    JsonDocument(
        <<[key |-> "rank_momentum_signals",
           value |-> ToDictRecords(ResetIndex(RankedTable("momentum", <<"score">>, 1)))],
          [key |-> "rank_reversal_signals",
           value |-> ToDictRecords(ResetIndex(RankedTable("reversal", <<"score">>, 1)))]>>)

Init ==
    /\ pc = "run_momentum_analysis"
    /\ all_indicator_data = None
    /\ quant_report_df = None
    /\ momentum_display_df = None
    /\ reversal_display_df = None
    /\ initial_momentum_ranked_data = None
    /\ initial_reversal_ranked_data = None
    /\ output_dict = <<>>
    /\ snapshot_file \in {AbsentFile, FileWith(PriorDocument, TRUE)}
    /\ output_dir_exists \in (IF snapshot_file.exists THEN {TRUE} ELSE BOOLEAN)
    /\ prior_file = snapshot_file
    /\ prior_dir_exists = output_dir_exists
    /\ other_run_file = IF snapshot_file.exists THEN AbsentFile
                        ELSE FileWith(PriorDocument, TRUE)
    /\ calls = <<>>
    /\ logged = <<>>
    /\ reached = {pc}

\* An exception that no inner except clause caught reaches the outermost
\* try block: caught there, it is logged and orchestrate() returns (pc is
\* "caught"); otherwise it leaves orchestrate() (pc is "raised").
Propagate(before, exc) ==
    IF ExceptOuter(exc)
    THEN /\ pc' = "caught"
         /\ logged' = logged \o before \o
                        <<Msg("error", "An error occurred during orchestration")>>
    ELSE /\ pc' = "raised"
         /\ logged' = logged \o before

\* The index test without the count of levels.
HasExpectedIndex_NoLevelCount(df) == df.index_type = "MultiIndex"

\* The panel has the expected index: a MultiIndex of two levels.
HasExpectedIndex(df) == df.index_type = "MultiIndex" /\ Len(df.index_names) = 2

\* Step 1: run_momentum_analysis() and the checks of its result.
RunMomentumAnalysis ==
    /\ pc = "run_momentum_analysis"
    /\ \E out \in IndicatorOutcomes :
        /\ calls' = Append(calls, Call("run_momentum_analysis", <<>>, out))
        /\ IF out.kind = "raise"
           THEN /\ Propagate(<<>>, out.exc)
                /\ UNCHANGED all_indicator_data
           ELSE /\ all_indicator_data' = out.val
                /\ IF IsNone(out.val) \/ Empty(out.val)
                   THEN /\ pc' = "stopped"
                        /\ logged' = Append(logged, Msg("warning",
                               "Momentum analysis did not return indicator data. Stopping."))
                   ELSE IF ~HasExpectedIndex(out.val)
                   THEN /\ pc' = "stopped"
                        /\ logged' = Append(logged, Msg("error",
                               "all_indicator_data does not have the expected MultiIndex. Stopping."))
                   ELSE /\ pc' = "generate_signal_report"
                        /\ UNCHANGED logged
    /\ UNCHANGED <<quant_report_df, momentum_display_df, reversal_display_df,
                   initial_momentum_ranked_data, initial_reversal_ranked_data,
                   output_dict, output_dir_exists, snapshot_file, prior_file, prior_dir_exists, other_run_file>>
    /\ reached' = reached \cup {pc'}

\* Step 2: generate_signal_report(); an absent or empty report, or an
\* exception, leaves an empty DataFrame.
GenerateSignalReport ==
    /\ pc = "generate_signal_report"
    /\ \E out \in StatsOutcomes :
        /\ calls' = Append(calls, Call("generate_signal_report", <<>>, out))
        /\ IF out.kind = "raise"
           THEN IF ExceptQuantReport(out.exc)
                THEN /\ quant_report_df' = QuantReportFallback
                     /\ pc' = "get_processed_momentum_results"
                     /\ logged' = Append(logged, Msg("error", "Error during generate_signal_report"))
                ELSE /\ Propagate(<<>>, out.exc)
                     /\ UNCHANGED quant_report_df
           ELSE /\ pc' = "get_processed_momentum_results"
                /\ IF IsNone(out.val) \/ Empty(out.val)
                   THEN /\ quant_report_df' = QuantReportFallback
                        /\ logged' = Append(logged, Msg("warning",
                               "Quant report generation returned empty or failed."))
                   ELSE /\ quant_report_df' = out.val
                        /\ UNCHANGED logged
    /\ UNCHANGED <<all_indicator_data, momentum_display_df, reversal_display_df,
                   initial_momentum_ranked_data, initial_reversal_ranked_data,
                   output_dict, output_dir_exists, snapshot_file, prior_file, prior_dir_exists, other_run_file>>
    /\ reached' = reached \cup {pc'}

\* The outcome of the body of a processing try block: the ranker's exception,
\* or AttributeError from ".empty" of a None result, or the table.
ProcessedBody(out) ==
    IF out.kind = "raise" THEN out
    ELSE IF IsNone(out.val) THEN Raise("AttributeError")
    ELSE out

\* Step 3: get_processed_momentum_results(); an exception leaves an empty
\* DataFrame.
ProcessMomentum ==
    /\ pc = "get_processed_momentum_results"
    /\ \E out \in ProcessedOutcomes("momentum") :
        /\ calls' = Append(calls, Call("get_processed_momentum_results",
                              <<all_indicator_data, quant_report_df, PyInt(TOP_N_MOMENTUM)>>, out))
        /\ LET body == ProcessedBody(out) IN
           IF body.kind = "raise"
           THEN IF ExceptMomentum(body.exc)
                THEN /\ momentum_display_df' = MomentumFallback
                     /\ pc' = "get_processed_reversal_results"
                     /\ logged' = Append(logged, Msg("error", "Error processing momentum signals"))
                ELSE /\ Propagate(<<>>, body.exc)
                     /\ momentum_display_df' = IF out.kind = "raise" THEN momentum_display_df
                                                ELSE out.val
           ELSE /\ momentum_display_df' = body.val
                /\ pc' = "get_processed_reversal_results"
                /\ IF Empty(body.val)
                   THEN logged' = Append(logged, Msg("warning",
                               "Momentum processing returned no displayable results."))
                   ELSE UNCHANGED logged
    /\ UNCHANGED <<all_indicator_data, quant_report_df, reversal_display_df,
                   initial_momentum_ranked_data, initial_reversal_ranked_data,
                   output_dict, output_dir_exists, snapshot_file, prior_file, prior_dir_exists, other_run_file>>
    /\ reached' = reached \cup {pc'}

\* Step 4: get_processed_reversal_results(); an exception leaves an empty
\* DataFrame.
ProcessReversal ==
    /\ pc = "get_processed_reversal_results"
    /\ \E out \in ProcessedOutcomes("reversal") :
        /\ calls' = Append(calls, Call("get_processed_reversal_results",
                              <<all_indicator_data, quant_report_df, PyInt(TOP_N_REVERSAL)>>, out))
        /\ LET body == ProcessedBody(out) IN
           IF body.kind = "raise"
           THEN IF ExceptReversal(body.exc)
                THEN /\ reversal_display_df' = ReversalFallback
                     /\ pc' = "display_momentum_results"
                     /\ logged' = Append(logged, Msg("error", "Error processing reversal signals"))
                ELSE /\ Propagate(<<>>, body.exc)
                     /\ reversal_display_df' = IF out.kind = "raise" THEN reversal_display_df
                                                ELSE out.val
           ELSE /\ reversal_display_df' = body.val
                /\ pc' = "display_momentum_results"
                /\ IF Empty(body.val)
                   THEN logged' = Append(logged, Msg("warning",
                               "Reversal processing returned no displayable results."))
                   ELSE UNCHANGED logged
    /\ UNCHANGED <<all_indicator_data, quant_report_df, momentum_display_df,
                   initial_momentum_ranked_data, initial_reversal_ranked_data,
                   output_dict, output_dir_exists, snapshot_file, prior_file, prior_dir_exists, other_run_file>>
    /\ reached' = reached \cup {pc'}

\* The display test written without the negation's operand.
HasResults_Always(df) == TRUE

\* The test of the display step: "not <set>.empty".
HasResults(df) == ~Empty(df)

\* What a display function does: it returns, or it raises.
DisplayOutcomes == {Return(None), Raise("ValueError")}

\* A display call inside a try block of its own, whose handler logs and goes
\* on to the step after it.
DisplayFailure_CaughtAtStep(after, exc) ==
    /\ pc' = after
    /\ logged' = Append(logged, Msg("error", "Error displaying results"))

\* An exception of a display call: step 5 has no try block of its own, so
\* the exception leaves for the outer handler and the step after it is not
\* taken.
DisplayFailure(after, exc) == Propagate(<<>>, exc)

\* Step 5, momentum: display_momentum_results() on a non-empty processed set.
\* No inner try block encloses it.
DisplayMomentum ==
    /\ pc = "display_momentum_results"
    /\ IF IsNone(momentum_display_df)
       THEN /\ Propagate(<<>>, "AttributeError")
            /\ UNCHANGED calls
       ELSE IF HasResults(momentum_display_df)
       THEN \E out \in DisplayOutcomes :
              /\ calls' = Append(calls, Call("display_momentum_results",
                                    <<momentum_display_df>>, out))
              /\ IF out.kind = "raise"
                 THEN DisplayFailure("display_reversal_results", out.exc)
                 ELSE /\ pc' = "display_reversal_results"
                      /\ UNCHANGED logged
       ELSE /\ pc' = "display_reversal_results"
            /\ logged' = Append(logged, Msg("info", "No momentum results to display."))
            /\ UNCHANGED calls
    /\ UNCHANGED <<all_indicator_data, quant_report_df, momentum_display_df,
                   reversal_display_df, initial_momentum_ranked_data,
                   initial_reversal_ranked_data, output_dict, output_dir_exists,
                   snapshot_file, prior_file, prior_dir_exists, other_run_file>>
    /\ reached' = reached \cup {pc'}

\* Step 5, reversal: display_reversal_results() on a non-empty processed set.
DisplayReversal ==
    /\ pc = "display_reversal_results"
    /\ IF IsNone(reversal_display_df)
       THEN /\ Propagate(<<>>, "AttributeError")
            /\ UNCHANGED calls
       ELSE IF HasResults(reversal_display_df)
       THEN \E out \in DisplayOutcomes :
              /\ calls' = Append(calls, Call("display_reversal_results",
                                    <<reversal_display_df>>, out))
              /\ IF out.kind = "raise"
                 THEN DisplayFailure("rank_momentum_signals", out.exc)
                 ELSE /\ pc' = "rank_momentum_signals"
                      /\ UNCHANGED logged
       ELSE /\ pc' = "rank_momentum_signals"
            /\ logged' = Append(logged, Msg("info", "No reversal results to display."))
            /\ UNCHANGED calls
    /\ UNCHANGED <<all_indicator_data, quant_report_df, momentum_display_df,
                   reversal_display_df, initial_momentum_ranked_data,
                   initial_reversal_ranked_data, output_dict, output_dir_exists,
                   snapshot_file, prior_file, prior_dir_exists, other_run_file>>
    /\ reached' = reached \cup {pc'}

\* The handler of the raw re-ranking try block starting the re-ranking again.
RerankFailure_Retry(exc) ==
    IF ExceptRerank(exc)
    THEN /\ initial_momentum_ranked_data' = None
         /\ initial_reversal_ranked_data' = None
         /\ pc' = "rank_momentum_signals"
         /\ logged' = Append(logged, Msg("error",
                               "Error re-running initial ranking for JSON save"))
    ELSE /\ Propagate(<<>>, exc)
         /\ UNCHANGED <<initial_momentum_ranked_data, initial_reversal_ranked_data>>

\* The handler of the raw re-ranking try block falling back to the processed
\* results.
RerankFailure_FallbackToProcessed(exc) ==
    IF ExceptRerank(exc)
    THEN /\ initial_momentum_ranked_data' = momentum_display_df
         /\ initial_reversal_ranked_data' = reversal_display_df
         /\ pc' = "save_initial_results"
         /\ logged' = Append(logged, Msg("error",
                               "Error re-running initial ranking for JSON save"))
    ELSE /\ Propagate(<<>>, exc)
         /\ UNCHANGED <<initial_momentum_ranked_data, initial_reversal_ranked_data>>

\* The handler of the raw re-ranking try block resetting the reversal result
\* only, so that a momentum result computed before the failure survives.
RerankFailure_KeepMomentum(exc) ==
    IF ExceptRerank(exc)
    THEN /\ initial_reversal_ranked_data' = None
         /\ pc' = "save_initial_results"
         /\ logged' = Append(logged, Msg("error",
                               "Error re-running initial ranking for JSON save"))
         /\ UNCHANGED initial_momentum_ranked_data
    ELSE /\ Propagate(<<>>, exc)
         /\ UNCHANGED <<initial_momentum_ranked_data, initial_reversal_ranked_data>>

\* An exception in the raw re-ranking try block: both raw results become
\* None and the run goes on to the save step.
RerankFailure(exc) ==
    IF ExceptRerank(exc)
    THEN /\ initial_momentum_ranked_data' = None
         /\ initial_reversal_ranked_data' = None
         /\ pc' = "save_initial_results"
         /\ logged' = Append(logged, Msg("error",
                               "Error re-running initial ranking for JSON save"))
    ELSE /\ Propagate(<<>>, exc)
         /\ UNCHANGED <<initial_momentum_ranked_data, initial_reversal_ranked_data>>

\* Step 6, first call: rank_momentum_signals(all_indicator_data).
RerankMomentum ==
    /\ pc = "rank_momentum_signals"
    /\ \E out \in RawOutcomes("momentum") :
        /\ calls' = Append(calls, Call("rank_momentum_signals", <<all_indicator_data>>, out))
        /\ IF out.kind = "raise"
           THEN RerankFailure(out.exc)
           ELSE /\ initial_momentum_ranked_data' = out.val
                /\ pc' = "rank_reversal_signals"
                /\ UNCHANGED <<initial_reversal_ranked_data, logged>>
    /\ UNCHANGED <<all_indicator_data, quant_report_df, momentum_display_df,
                   reversal_display_df, output_dict, output_dir_exists,
                   snapshot_file, prior_file, prior_dir_exists, other_run_file>>
    /\ reached' = reached \cup {pc'}

\* Step 6, second call: rank_reversal_signals(all_indicator_data), in the
\* same try block.
RerankReversal ==
    /\ pc = "rank_reversal_signals"
    /\ \E out \in RawOutcomes("reversal") :
        /\ calls' = Append(calls, Call("rank_reversal_signals", <<all_indicator_data>>, out))
        /\ IF out.kind = "raise"
           THEN RerankFailure(out.exc)
           ELSE /\ initial_reversal_ranked_data' = out.val
                /\ pc' = "save_initial_results"
                /\ UNCHANGED <<initial_momentum_ranked_data, logged>>
    /\ UNCHANGED <<all_indicator_data, quant_report_df, momentum_display_df,
                   reversal_display_df, output_dict, output_dir_exists,
                   snapshot_file, prior_file, prior_dir_exists, other_run_file>>
    /\ reached' = reached \cup {pc'}

\* The test of the save step without the emptiness test.
HasRows_NoEmptyTest(v) == ~IsNone(v)

\* The test of the save step on one raw result: not None and not empty.
HasRows(v) == ~IsNone(v) /\ ~Empty(v)

\* The section test without the emptiness test.
IsSection_NoEmptyTest(v) == IsDataFrame(v)

\* The test that puts a section in output_dict: a DataFrame that is not empty.
IsSection(v) == IsDataFrame(v) /\ ~Empty(v)

\* The momentum truncation with the reversal count.
momentum_top_ReversalCount(df) == head(df, TOP_N_REVERSAL)

momentum_top(df) == head(df, TOP_N_MOMENTUM)

reversal_top(df) == head(df, TOP_N_REVERSAL)

\* The records of one section: reset_index() then to_dict(orient="records")
\* of the truncated table, or the ValueError of reset_index().
SectionRecords(top) ==
    IF ResetIndexRaises(top) THEN Raise("ValueError")
    ELSE Return(ToDictRecords(ResetIndex(top)))

\* output_dict started from the sections the snapshot file holds.
NewOutputDict_FromFile == snapshot_file.items

\* output_dict = {}
NewOutputDict == <<>>

\* The body of the JSON try block from "output_dict = {}" to the test of
\* output_dict: the dictionary built, and the exception that ended the
\* building, if any.
BuildOutputDict(m, r) ==
    LET ms == IF IsSection(m) THEN SectionRecords(momentum_top(m)) ELSE Return(<<>>)
        rs == IF IsSection(r) THEN SectionRecords(reversal_top(r)) ELSE Return(<<>>)
        d1 == IF IsSection(m) /\ ms.kind = "return"
              THEN NewOutputDict \o <<[key |-> "rank_momentum_signals", value |-> ms.val]>>
              ELSE NewOutputDict
        d2 == IF IsSection(r) /\ rs.kind = "return"
              THEN d1 \o <<[key |-> "rank_reversal_signals", value |-> rs.val]>> ELSE d1
    IN  IF ms.kind = "raise" THEN [dict |-> NewOutputDict, out |-> ms]
        ELSE IF rs.kind = "raise" THEN [dict |-> d1, out |-> rs]
        ELSE [dict |-> d2, out |-> Return(None)]

\* The end of orchestrate(): the closing message, then the return.
Finish(before) ==
    /\ pc' = "finished"
    /\ logged' = logged \o before \o
                   <<Msg("info", "Quantitative analysis orchestration finished.")>>

\* An exception in the JSON try block: logged, and the run finishes.
JsonFailure(exc) ==
    IF ExceptJson(exc)
    THEN Finish(<<Msg("error", "Failed to save initial results to JSON")>>)
    ELSE Propagate(<<>>, exc)

\* os.makedirs(OUTPUT_DIR, exist_ok=True): nothing to do when the directory
\* exists; otherwise it creates it or raises OSError.
MakedirsOutcomes == IF output_dir_exists THEN {Return(None)}
                    ELSE {Return(None), Raise("OSError")}

\* Step 7, first part: the test of the two raw results, os.makedirs and the
\* building of output_dict.
SaveInitialResults ==
    /\ pc = "save_initial_results"
    /\ IF HasRows(initial_momentum_ranked_data) \/ HasRows(initial_reversal_ranked_data)
       THEN \E out \in MakedirsOutcomes :
              /\ calls' = Append(calls, Call("os.makedirs", <<>>, out))
              /\ IF out.kind = "raise"
                 THEN /\ JsonFailure(out.exc)
                      /\ UNCHANGED <<output_dict, output_dir_exists>>
                 ELSE LET built == BuildOutputDict(initial_momentum_ranked_data,
                                                   initial_reversal_ranked_data) IN
                      /\ output_dir_exists' = TRUE
                      /\ output_dict' = built.dict
                      /\ IF built.out.kind = "raise"
                         THEN JsonFailure(built.out.exc)
                         ELSE IF built.dict # <<>>
                         THEN /\ pc' = "open"
                              /\ UNCHANGED logged
                         ELSE Finish(<<Msg("info",
                                  "No initial ranking data was generated to save.")>>)
       ELSE /\ Finish(<<Msg("info",
                   "No initial ranking data was generated. Skipping JSON save.")>>)
            /\ UNCHANGED <<calls, output_dict, output_dir_exists>>
    /\ UNCHANGED <<all_indicator_data, quant_report_df, momentum_display_df,
                   reversal_display_df, initial_momentum_ranked_data,
                   initial_reversal_ranked_data, snapshot_file, prior_file, prior_dir_exists, other_run_file>>
    /\ reached' = reached \cup {pc'}

\* What open(JSON_OUTPUT_PATH, 'w') does: it truncates or creates the file,
\* or it raises OSError and leaves the file alone.
OpenOutcomes == {Return(None), Raise("OSError")}

\* Step 7, second part: open(JSON_OUTPUT_PATH, 'w').
OpenSnapshotFile ==
    /\ pc = "open"
    /\ \E out \in OpenOutcomes :
        /\ calls' = Append(calls, Call("open", <<>>, out))
        /\ IF out.kind = "raise"
           THEN /\ JsonFailure(out.exc)
                /\ UNCHANGED <<snapshot_file, other_run_file>>
           ELSE /\ snapshot_file' = OpenForWrite(snapshot_file)
                /\ other_run_file' = OpenForWrite(other_run_file)
                /\ pc' = "json.dump"
                /\ UNCHANGED logged
    /\ UNCHANGED <<all_indicator_data, quant_report_df, momentum_display_df,
                   reversal_display_df, initial_momentum_ranked_data,
                   initial_reversal_ranked_data, output_dict, output_dir_exists,
                   prior_file, prior_dir_exists>>
    /\ reached' = reached \cup {pc'}

\* What json.dump does: it writes the whole document, or it raises after
\* writing only some leading sections of it.
DumpOutcomes(doc) ==
    {[kind |-> "return", written |-> doc]}
    \cup {[kind |-> "raise", exc |-> "OSError", written |-> SubSeq(doc, 1, k)] :
             k \in 0..(Len(doc) - 1)}

\* Step 7, third part: json.dump(output_dict, f, indent=4, default=str) and
\* the end of the with block.
DumpSnapshot ==
    /\ pc = "json.dump"
    /\ \E out \in DumpOutcomes(JsonDocument(output_dict)) :
        /\ calls' = Append(calls, Call("json.dump", <<>>,
                              IF out.kind = "raise" THEN Raise(out.exc) ELSE Return(None)))
        /\ snapshot_file' = FileWith(snapshot_file.items \o out.written,
                                     out.kind = "return")
        /\ other_run_file' = FileWith(other_run_file.items \o out.written,
                                      out.kind = "return")
        /\ IF out.kind = "raise"
           THEN JsonFailure(out.exc)
           ELSE Finish(<<Msg("info", "Successfully saved *initial* ranking results")>>)
    /\ UNCHANGED <<all_indicator_data, quant_report_df, momentum_display_df,
                   reversal_display_df, initial_momentum_ranked_data,
                   initial_reversal_ranked_data, output_dict, output_dir_exists,
                   prior_file, prior_dir_exists>>
    /\ reached' = reached \cup {pc'}

Next ==
    \/ RunMomentumAnalysis
    \/ GenerateSignalReport
    \/ ProcessMomentum
    \/ ProcessReversal
    \/ DisplayMomentum
    \/ DisplayReversal
    \/ RerankMomentum
    \/ RerankReversal
    \/ SaveInitialResults
    \/ OpenSnapshotFile
    \/ DumpSnapshot

Spec == Init /\ [][Next]_vars

(***************************************************************************)
(* Vocabulary of the properties.                                           *)
(***************************************************************************)
\* orchestrate() has returned: at its last line, at an early return of step
\* 1, or from the outermost except clause.
Returned == pc \in {"finished", "stopped", "caught"}

Terminated == Returned \/ pc = "raised"

CallsOf(op) == {i \in 1..Len(calls) : calls[i].op = op}

Called(op) == CallsOf(op) # {}

RaisedIn(op) == \E i \in CallsOf(op) : calls[i].out.kind = "raise"

\* The call of op gave back value v.
Gave(op, v) ==
    \E i \in CallsOf(op) : calls[i].out.kind = "return" /\ calls[i].out.val = v

\* A table with at least one row and one column.
NonEmptyTable(v) == v.type = "DataFrame" /\ Len(v.rows) > 0 /\ Len(v.columns) > 0

\* None, or a table without rows or without columns.
EmptyOrAbsent(v) == v.type = "NoneType" \/ (v.type = "DataFrame" /\ ~NonEmptyTable(v))

\* IndicatorSource gave a non-empty panel keyed by a two-level composite key.
PanelValid ==
    \E i \in CallsOf("run_momentum_analysis") :
        /\ calls[i].out.kind = "return"
        /\ NonEmptyTable(calls[i].out.val)
        /\ calls[i].out.val.index_type = "MultiIndex"
        /\ Len(calls[i].out.val.index_names) = 2

\* IndicatorSource gave an absent or empty panel, or one whose key is not a
\* two-level composite key.
PanelRejected ==
    \E i \in CallsOf("run_momentum_analysis") :
        /\ calls[i].out.kind = "return"
        /\ \/ EmptyOrAbsent(calls[i].out.val)
           \/ calls[i].out.val.index_type # "MultiIndex"
           \/ Len(calls[i].out.val.index_names) # 2

(***************************************************************************)
(* C1.  orchestrate() always terminates and returns normally: whatever     *)
(* each collaborator, the directory creation and the serialization do      *)
(* (succeed, give an empty or absent result, raise), no exception leaves   *)
(* the entry point, the run can always take a next step until it has       *)
(* returned, and every step moves to a position of the code not visited    *)
(* before in the run (so the run ends, and ends by returning).             *)
(***************************************************************************)
C1_AlwaysReturnsNormally ==
    /\ [](pc # "raised" /\ (Returned \/ ENABLED Next))
    /\ [][pc' \notin reached]_vars

\* An exception was raised, no inner boundary caught it, and the outermost
\* boundary turned it into a normal return.
C1_Witness == pc = "caught" /\ RaisedIn("display_reversal_results")

(***************************************************************************)
(* C2.  A panel that is absent, empty or not keyed by a two-level          *)
(* composite key aborts the run at step 1: run_momentum_analysis is the    *)
(* only call ever made (no stats fetch, ranker, display, directory         *)
(* creation or write), the output directory is as before the run and the   *)
(* snapshot file has its pre-run content.                                  *)
(***************************************************************************)
C2_AbortAtStepOne ==
    PanelRejected =>
        /\ pc = "stopped"
        /\ Len(calls) = 1
        /\ reached = {"run_momentum_analysis", "stopped"}
        /\ output_dir_exists = prior_dir_exists
        /\ snapshot_file = prior_file

\* The panel with a three-level key was rejected, with a snapshot of an
\* earlier run on disk.
C2_Witness ==
    /\ PanelRejected
    /\ pc = "stopped"
    /\ NonEmptyTable(all_indicator_data)
    /\ Len(all_indicator_data.index_names) = 3
    /\ prior_file.exists

ProcessedStages ==
    {"generate_signal_report", "get_processed_momentum_results",
     "get_processed_reversal_results"}

\* A display function raised.
PresenterRaised ==
    RaisedIn("display_momentum_results") \/ RaisedIn("display_reversal_results")

\* Whatever table a processed ranker gave back is what the run keeps for
\* display, and a non-empty report the stats fetch gave back is what the run
\* keeps and what both processed rankers received.
ResultsAsReturned ==
    /\ \A i \in CallsOf("generate_signal_report") :
          (calls[i].out.kind = "return" /\ NonEmptyTable(calls[i].out.val)) =>
              /\ quant_report_df = calls[i].out.val
              /\ \A j \in CallsOf("get_processed_momentum_results")
                        \cup CallsOf("get_processed_reversal_results") :
                    calls[j].args[2] = calls[i].out.val
    /\ \A i \in CallsOf("get_processed_momentum_results") :
          (calls[i].out.kind = "return" /\ calls[i].out.val.type = "DataFrame") =>
              momentum_display_df = calls[i].out.val
    /\ \A i \in CallsOf("get_processed_reversal_results") :
          (calls[i].out.kind = "return" /\ calls[i].out.val.type = "DataFrame") =>
              reversal_display_df = calls[i].out.val
    /\ \A j \in CallsOf("get_processed_momentum_results")
                  \cup CallsOf("get_processed_reversal_results") :
          calls[j].args[1] = all_indicator_data

\* A run with a valid panel has ended, and exactly one of the stats fetch and
\* the two processed rankers raised in it.
OneProcessedStageRaised ==
    /\ Terminated
    /\ PanelValid
    /\ Cardinality({op \in ProcessedStages : RaisedIn(op)}) = 1

(***************************************************************************)
(* C3, as stated.  In every run with a valid panel in which exactly one of *)
(* the stats fetch and the two processed rankers raises, the other two are *)
(* invoked with their results unaffected, and the run goes on to the       *)
(* display step, the raw re-ranking and the snapshot step.                 *)
(***************************************************************************)
C3_AsStated ==
    OneProcessedStageRaised =>
        /\ \A op \in ProcessedStages : Called(op)
        /\ ResultsAsReturned
        /\ {"display_momentum_results", "rank_momentum_signals",
            "save_initial_results"} \subseteq reached

(***************************************************************************)
(* C3, amended.  In every run with a valid panel in which exactly one of   *)
(* the stats fetch and the two processed rankers raises, the other two are *)
(* invoked with their results unaffected and the run goes on to the        *)
(* display step; it goes on to the raw re-ranking and the snapshot step    *)
(* unless a Presenter call raises.                                         *)
(***************************************************************************)
C3_FailureIsolation ==
    OneProcessedStageRaised =>
        /\ \A op \in ProcessedStages : Called(op)
        /\ ResultsAsReturned
        /\ "display_momentum_results" \in reached
        /\ PresenterRaised \/
             {"rank_momentum_signals", "save_initial_results"} \subseteq reached

\* The momentum ranker alone raised; the reversal set it did not affect was
\* displayed and the run finished.
C3_Witness ==
    /\ OneProcessedStageRaised
    /\ RaisedIn("get_processed_momentum_results")
    /\ NonEmptyTable(quant_report_df)
    /\ NonEmptyTable(reversal_display_df)
    /\ Called("display_reversal_results")
    /\ pc = "finished"

StagesAfterPanel ==
    {"generate_signal_report", "get_processed_momentum_results",
     "get_processed_reversal_results", "display_momentum_results",
     "display_reversal_results", "rank_momentum_signals", "rank_reversal_signals",
     "save_initial_results"}

\* A failed stage left an empty result where it failed.
FailuresLeftEmpty ==
    /\ RaisedIn("generate_signal_report") =>
          (quant_report_df.type = "DataFrame" /\ ~NonEmptyTable(quant_report_df))
    /\ RaisedIn("get_processed_momentum_results") =>
          (momentum_display_df.type = "DataFrame" /\ ~NonEmptyTable(momentum_display_df))
    /\ RaisedIn("get_processed_reversal_results") =>
          (reversal_display_df.type = "DataFrame" /\ ~NonEmptyTable(reversal_display_df))
    /\ (RaisedIn("rank_momentum_signals") \/ RaisedIn("rank_reversal_signals")) =>
          /\ EmptyOrAbsent(initial_momentum_ranked_data)
          /\ EmptyOrAbsent(initial_reversal_ranked_data)

(***************************************************************************)
(* C4, as stated.  After a valid panel, a failure of any stage (stats      *)
(* fetch, processed rankers, displays, raw rankers, snapshot write) is     *)
(* turned into an empty result where it occurs and every later stage is    *)
(* still attempted: the run passes through every stage to its last line.   *)
(***************************************************************************)
C4_AsStated ==
    (Terminated /\ PanelValid) =>
        /\ pc = "finished"
        /\ FailuresLeftEmpty
        /\ StagesAfterPanel \subseteq reached

(***************************************************************************)
(* C4, amended.  After a valid panel, a failure of the stats fetch, of a   *)
(* processed ranker, of a raw ranker or of the snapshot write is turned    *)
(* into an empty result where it occurs and every later stage is still     *)
(* attempted, except that a raw momentum ranker failure also skips the raw *)
(* reversal ranker (both raw results become empty).  A Presenter failure   *)
(* is not converted: it is caught by the outermost boundary only and ends  *)
(* the run.                                                                *)
(***************************************************************************)
C4_StageFailuresIsolated ==
    (Terminated /\ PanelValid) =>
        /\ FailuresLeftEmpty
        /\ PresenterRaised => pc = "caught"
        /\ ~PresenterRaised =>
              /\ pc = "finished"
              /\ (StagesAfterPanel \ {"rank_reversal_signals"}) \subseteq reached
              /\ RaisedIn("rank_momentum_signals") \/ "rank_reversal_signals" \in reached

\* The stats fetch, both processed rankers and the snapshot write all failed
\* in one run, and the run passed every stage to its last line.
C4_Witness ==
    /\ pc = "finished"
    /\ RaisedIn("generate_signal_report")
    /\ RaisedIn("get_processed_momentum_results")
    /\ RaisedIn("get_processed_reversal_results")
    /\ RaisedIn("json.dump")
    /\ StagesAfterPanel \subseteq reached

\* json.dump returned: the snapshot of this run is on disk.
Written == \E i \in CallsOf("json.dump") : calls[i].out.kind = "return"

SectionKeys == {"rank_momentum_signals", "rank_reversal_signals"}

\* The flat record of a ranked row: the identity fields symbol and date as
\* plain fields (the date as text), then the score column.
FlatRecord(row, column) ==
    <<[name |-> "symbol", value |-> row.key[1]],
      [name |-> "date", value |-> PyStr(IsoDays[row.key[2].ordinal])],
      [name |-> column, value |-> row.vals[1]]>>

\* The first min(n, len) rows of a raw-ranked set, in its order, flattened.
FirstRowsFlat(raw, n) ==
    [i \in 1..(IF n <= Len(raw.rows) THEN n ELSE Len(raw.rows)) |->
        FlatRecord(raw.rows[i], raw.columns[1])]

(***************************************************************************)
(* C5.  Whenever a snapshot is written, each section in it is the first    *)
(* min(top_n, len(raw set)) rows of its family's raw-ranked set, in the    *)
(* raw set's order, flattened: min(TOP_N_MOMENTUM, len) records for        *)
(* momentum and min(TOP_N_REVERSAL, len) records for reversal.             *)
(***************************************************************************)
C5_SectionsAreTopRows ==
    Written =>
        /\ snapshot_file.complete
        /\ \A k \in 1..Len(snapshot_file.items) :
              /\ snapshot_file.items[k].key \in SectionKeys
              /\ snapshot_file.items[k].key = "rank_momentum_signals" =>
                    snapshot_file.items[k].value =
                        FirstRowsFlat(initial_momentum_ranked_data, TOP_N_MOMENTUM)
              /\ snapshot_file.items[k].key = "rank_reversal_signals" =>
                    snapshot_file.items[k].value =
                        FirstRowsFlat(initial_reversal_ranked_data, TOP_N_REVERSAL)

\* Both raw sets were longer than their top-N and the snapshot written has
\* TOP_N_MOMENTUM and TOP_N_REVERSAL records.
C5_Witness ==
    /\ Written
    /\ NonEmptyTable(initial_momentum_ranked_data)
    /\ NonEmptyTable(initial_reversal_ranked_data)
    /\ Len(initial_momentum_ranked_data.rows) > TOP_N_MOMENTUM
    /\ Len(initial_reversal_ranked_data.rows) > TOP_N_REVERSAL
    /\ Len(snapshot_file.items) = 2
    /\ Len(snapshot_file.items[1].value) = TOP_N_MOMENTUM
    /\ Len(snapshot_file.items[2].value) = TOP_N_REVERSAL

\* Both raw rankers were called and each gave back an empty or absent result.
BothRawEmpty ==
    /\ \E i \in CallsOf("rank_momentum_signals") :
          calls[i].out.kind = "return" /\ EmptyOrAbsent(calls[i].out.val)
    /\ \E i \in CallsOf("rank_reversal_signals") :
          calls[i].out.kind = "return" /\ EmptyOrAbsent(calls[i].out.val)

(***************************************************************************)
(* C6.  If both raw re-rank calls give empty or absent results, no file    *)
(* write occurs, the output directory is not created, the snapshot file    *)
(* keeps its pre-run content, and the run completes at its last line with  *)
(* an info message, not an error.                                          *)
(***************************************************************************)
C6_NothingToSnapshot ==
    BothRawEmpty =>
        /\ ~Called("os.makedirs") /\ ~Called("open") /\ ~Called("json.dump")
        /\ output_dir_exists = prior_dir_exists
        /\ snapshot_file = prior_file
        /\ pc \in {"save_initial_results", "finished"}
        /\ pc = "finished" =>
              /\ logged[Len(logged)].level = "info"
              /\ logged[Len(logged) - 1] =
                    Msg("info", "No initial ranking data was generated. Skipping JSON save.")

\* The momentum ranker gave None and the reversal ranker an empty table, with
\* a prior snapshot on disk, and the run finished.
C6_Witness ==
    /\ BothRawEmpty
    /\ pc = "finished"
    /\ initial_momentum_ranked_data.type = "NoneType"
    /\ initial_reversal_ranked_data.type = "DataFrame"
    /\ prior_file.exists

\* The stats fetch raised, or gave back an absent or empty report.
StatsDegraded ==
    \E i \in CallsOf("generate_signal_report") :
        \/ calls[i].out.kind = "raise"
        \/ (calls[i].out.kind = "return" /\ EmptyOrAbsent(calls[i].out.val))

ProcessedRankerCalls ==
    CallsOf("get_processed_momentum_results") \cup CallsOf("get_processed_reversal_results")

(***************************************************************************)
(* C7.  If the stats fetch raises or gives an absent or empty report, both *)
(* processed rankers are still called, each receives as stats an empty     *)
(* table (a DataFrame, not None), and both receive the same value.         *)
(***************************************************************************)
C7_EmptyStatsToBothRankers ==
    StatsDegraded =>
        /\ \A i \in ProcessedRankerCalls :
              /\ calls[i].args[2].type = "DataFrame"
              /\ ~NonEmptyTable(calls[i].args[2])
        /\ \A i, j \in ProcessedRankerCalls : calls[i].args[2] = calls[j].args[2]
        /\ Terminated =>
              /\ Called("get_processed_momentum_results")
              /\ Called("get_processed_reversal_results")

\* The stats fetch raised and both processed rankers have been called.
C7_Witness ==
    /\ RaisedIn("generate_signal_report")
    /\ Called("get_processed_momentum_results")
    /\ Called("get_processed_reversal_results")

\* A run has ended in which the processed momentum ranker raised and the
\* processed reversal ranker gave a non-empty set.
MomentumRaisedReversalGave ==
    /\ Terminated
    /\ RaisedIn("get_processed_momentum_results")
    /\ \E i \in CallsOf("get_processed_reversal_results") :
          calls[i].out.kind = "return" /\ NonEmptyTable(calls[i].out.val)

\* The Presenter was invoked for reversal, once, and never for momentum.
ReversalDisplayedOnly ==
    /\ Cardinality(CallsOf("display_reversal_results")) = 1
    /\ ~Called("display_momentum_results")

(***************************************************************************)
(* C8, as stated.  If the processed momentum ranker raises and the         *)
(* processed reversal ranker gives a non-empty set, the Presenter is       *)
(* invoked for reversal only, and afterwards both raw rankers are invoked. *)
(***************************************************************************)
C8_AsStated ==
    MomentumRaisedReversalGave =>
        /\ ReversalDisplayedOnly
        /\ \A d \in CallsOf("display_reversal_results") :
              /\ \E i \in CallsOf("rank_momentum_signals") : d < i
              /\ \E i \in CallsOf("rank_reversal_signals") : d < i

(***************************************************************************)
(* C8, amended.  If the processed momentum ranker raises and the processed *)
(* reversal ranker gives a non-empty set, the Presenter is invoked for     *)
(* reversal only; if that Presenter call returns, the raw momentum ranker  *)
(* is invoked afterwards, and the raw reversal ranker after it unless the  *)
(* raw momentum ranker raised; if that Presenter call raises, neither raw  *)
(* ranker is invoked.                                                      *)
(***************************************************************************)
C8_ReversalOnlyThenRawRerank ==
    MomentumRaisedReversalGave =>
        /\ ReversalDisplayedOnly
        /\ \A d \in CallsOf("display_reversal_results") :
              IF calls[d].out.kind = "return"
              THEN /\ \E i \in CallsOf("rank_momentum_signals") :
                         /\ d < i
                         /\ calls[i].out.kind = "raise" \/
                              \E j \in CallsOf("rank_reversal_signals") : i < j
              ELSE /\ ~Called("rank_momentum_signals")
                   /\ ~Called("rank_reversal_signals")

\* After the processed momentum ranker raised, reversal alone was displayed
\* and the snapshot written holds a momentum section from the raw result.
C8_Witness ==
    /\ MomentumRaisedReversalGave
    /\ ReversalDisplayedOnly
    /\ Written
    /\ snapshot_file.items[1].key = "rank_momentum_signals"

\* reset_index() of a section's table raised: a non-empty raw table has a
\* column named like a level of its key.
SerializationFailed ==
    /\ Gave("os.makedirs", None)
    /\ \E v \in {initial_momentum_ranked_data, initial_reversal_ranked_data} :
          /\ NonEmptyTable(v)
          /\ \E a \in 1..Len(v.index_names), j \in 1..Len(v.columns) :
                v.index_names[a] = v.columns[j]

\* Directory creation, serialization or the file write failed.
SnapshotStepFailed ==
    \/ RaisedIn("os.makedirs")
    \/ RaisedIn("open")
    \/ RaisedIn("json.dump")
    \/ SerializationFailed

(***************************************************************************)
(* C9.  A failure of the output-directory creation or of the snapshot      *)
(* serialization or write is caught at the boundary of the snapshot step:  *)
(* it is logged there, it never reaches the outermost boundary, no         *)
(* exception leaves, and the run reaches its normal completion point.      *)
(***************************************************************************)
C9_SnapshotFailureCaught ==
    SnapshotStepFailed =>
        /\ pc = "finished"
        /\ logged[Len(logged) - 1] = Msg("error", "Failed to save initial results to JSON")
        /\ logged[Len(logged)] = Msg("info", "Quantitative analysis orchestration finished.")
        /\ \A i \in 1..Len(logged) :
              logged[i].text # "An error occurred during orchestration"

\* json.dump raised after the file was opened, and the run finished.
C9_Witness ==
    /\ RaisedIn("json.dump")
    /\ pc = "finished"
    /\ ~snapshot_file.complete

\* The section names of the families whose raw-ranked set is a non-empty
\* table.
NonEmptyFamilies ==
    (IF NonEmptyTable(initial_momentum_ranked_data) THEN {"rank_momentum_signals"} ELSE {})
    \cup
    (IF NonEmptyTable(initial_reversal_ranked_data) THEN {"rank_reversal_signals"} ELSE {})

\* A section is in the written snapshot iff its family's raw set is a
\* non-empty table, and no section is an empty list.
SectionsIffNonEmpty ==
    Written =>
        /\ {snapshot_file.items[k].key : k \in 1..Len(snapshot_file.items)} = NonEmptyFamilies
        /\ Len(snapshot_file.items) = Cardinality(NonEmptyFamilies)
        /\ \A k \in 1..Len(snapshot_file.items) : Len(snapshot_file.items[k].value) > 0

\* The run has ended after the raw re-ranking left exactly one family with a
\* non-empty table.
OneFamilyNonEmpty ==
    /\ pc = "finished"
    /\ "save_initial_results" \in reached
    /\ Cardinality(NonEmptyFamilies) = 1

(***************************************************************************)
(* C10, as stated.  A section is in the written snapshot iff its family's  *)
(* raw-ranked set is a non-empty table (an empty or absent raw set gives   *)
(* no section, not an empty list), and when exactly one family's raw set   *)
(* is non-empty the snapshot is still written, with that family's section  *)
(* only.                                                                   *)
(***************************************************************************)
C10_AsStated ==
    /\ SectionsIffNonEmpty
    /\ OneFamilyNonEmpty =>
          /\ Written
          /\ snapshot_file = FileWith(snapshot_file.items, TRUE)
          /\ Len(snapshot_file.items) = 1

(***************************************************************************)
(* C10, amended.  A section is in the written snapshot iff its family's    *)
(* raw-ranked set is a non-empty table (an empty or absent raw set gives   *)
(* no section, not an empty list), and when exactly one family's raw set   *)
(* is non-empty the write is still attempted and, unless the directory     *)
(* creation, the serialization or the file write fails, the snapshot is    *)
(* written with that family's section only.                                *)
(***************************************************************************)
C10_SectionIffRawNonEmpty ==
    /\ SectionsIffNonEmpty
    /\ OneFamilyNonEmpty =>
          /\ Called("os.makedirs")
          /\ SnapshotStepFailed \/
               /\ Written
               /\ snapshot_file = FileWith(snapshot_file.items, TRUE)
               /\ Len(snapshot_file.items) = 1

\* Only the reversal family had a non-empty raw set (the momentum ranker gave
\* an empty table) and the snapshot written has the reversal section alone.
C10_Witness ==
    /\ OneFamilyNonEmpty
    /\ Written
    /\ initial_momentum_ranked_data.type = "DataFrame"
    /\ Len(snapshot_file.items) = 1
    /\ snapshot_file.items[1].key = "rank_reversal_signals"


\* The run opened the snapshot file for writing.
Opened == Gave("open", None)

\* The content the snapshot file of the other run held before that run.
OtherPriorFile == IF prior_file.exists THEN AbsentFile ELSE FileWith(PriorDocument, TRUE)

RawRankerRaised ==
    RaisedIn("rank_momentum_signals") \/ RaisedIn("rank_reversal_signals")

(***************************************************************************)
(* C12.  If either raw ranker call raises, both raw result sets are        *)
(* treated as empty (a raw momentum result computed before the raw         *)
(* reversal ranker raised is discarded), no snapshot file write occurs     *)
(* (no directory creation, no open, no dump), the prior snapshot and the   *)
(* directory are unchanged, nothing is put into the document (so the       *)
(* processed results are no fallback), and the run ends at its last line   *)
(* after the message that the save is skipped.                             *)
(***************************************************************************)
C12_RawFailureDiscardsBoth ==
    RawRankerRaised =>
        /\ IsNone(initial_momentum_ranked_data)
        /\ IsNone(initial_reversal_ranked_data)
        /\ ~Called("os.makedirs") /\ ~Called("open") /\ ~Called("json.dump")
        /\ output_dict = <<>>
        /\ snapshot_file = prior_file
        /\ output_dir_exists = prior_dir_exists
        /\ pc \in {"save_initial_results", "finished"}
        /\ pc = "finished" =>
              /\ logged[Len(logged) - 1] =
                    Msg("info", "No initial ranking data was generated. Skipping JSON save.")
              /\ logged[Len(logged)] =
                    Msg("info", "Quantitative analysis orchestration finished.")

\* The raw momentum ranker gave a non-empty table, then the raw reversal
\* ranker raised; the processed momentum set was non-empty and displayed,
\* and the run finished without a snapshot.
C12_Witness ==
    /\ \E i \in CallsOf("rank_momentum_signals") :
          calls[i].out.kind = "return" /\ NonEmptyTable(calls[i].out.val)
    /\ RaisedIn("rank_reversal_signals")
    /\ NonEmptyTable(momentum_display_df)
    /\ Gave("display_momentum_results", None)
    /\ IsNone(initial_momentum_ranked_data)
    /\ ~prior_file.exists
    /\ pc = "finished"

\* The document made of the raw-ranked sets m and r alone: for each family
\* with a non-empty table, its section with the first top-N rows flattened,
\* momentum before reversal.
RawDocument(m, r) ==
    (IF NonEmptyTable(m)
     THEN <<[key |-> "rank_momentum_signals", value |-> FirstRowsFlat(m, TOP_N_MOMENTUM)]>>
     ELSE <<>>)
    \o
    (IF NonEmptyTable(r)
     THEN <<[key |-> "rank_reversal_signals", value |-> FirstRowsFlat(r, TOP_N_REVERSAL)]>>
     ELSE <<>>)

\* What the run keeps of a raw ranker's call: the value the call gave back,
\* or None once either raw ranker raised.
RawKept(op, kept) ==
    \A i \in CallsOf(op) :
        /\ calls[i].args = <<all_indicator_data>>
        /\ kept = IF RawRankerRaised THEN None ELSE calls[i].out.val

\* Whether the snapshot is written, and what it holds, follows from the two
\* raw results and the outcome of the write itself: the raw rankers receive
\* the panel only, the snapshot is written iff some raw result is a
\* non-empty table and no part of the snapshot step fails, a written
\* snapshot is the document of the raw results, and a run that does not open
\* the file leaves it as it was.
SnapshotFromRawOnly ==
    /\ RawKept("rank_momentum_signals", initial_momentum_ranked_data)
    /\ RawKept("rank_reversal_signals", initial_reversal_ranked_data)
    /\ Written <=> (/\ pc = "finished"
                    /\ "save_initial_results" \in reached
                    /\ NonEmptyFamilies # {}
                    /\ ~SnapshotStepFailed)
    /\ Written => snapshot_file =
                     FileWith(RawDocument(initial_momentum_ranked_data,
                                          initial_reversal_ranked_data), TRUE)
    /\ ~Opened => snapshot_file = prior_file

\* Every set handed to the Presenter is the table the family's processed
\* ranker gave back, handed over before any raw ranker was called.
PresenterOnlyProcessed ==
    /\ \A d \in CallsOf("display_momentum_results") :
          /\ Gave("get_processed_momentum_results", calls[d].args[1])
          /\ \A i \in CallsOf("rank_momentum_signals") \cup CallsOf("rank_reversal_signals") :
                d < i /\ (calls[i].out.kind = "return" => calls[i].out.val # calls[d].args[1])
    /\ \A d \in CallsOf("display_reversal_results") :
          /\ Gave("get_processed_reversal_results", calls[d].args[1])
          /\ \A i \in CallsOf("rank_momentum_signals") \cup CallsOf("rank_reversal_signals") :
                d < i /\ (calls[i].out.kind = "return" => calls[i].out.val # calls[d].args[1])

(***************************************************************************)
(* C13, as stated.  For a fixed panel and fixed raw ranker results, the    *)
(* outcome of the stats fetch and of the processed rankers never changes   *)
(* whether the snapshot is written or what it contains: whatever they do,  *)
(* a run with a valid panel gets to the raw rankers, and whether it writes *)
(* and what it writes follows from the raw results alone; and the sets     *)
(* handed to the Presenter are processed-mode results only.                *)
(***************************************************************************)
C13_AsStated ==
    (Terminated /\ PanelValid) =>
        /\ Called("rank_momentum_signals")
        /\ SnapshotFromRawOnly
        /\ PresenterOnlyProcessed

(***************************************************************************)
(* C13, amended.  The snapshot content depends only on the two raw-mode    *)
(* results and the top-N constants, and the sets handed to the Presenter   *)
(* are processed-mode results only; the outcome of the stats fetch and of  *)
(* the processed rankers changes whether the snapshot is written in one    *)
(* way only: a non-empty processed set is handed to the Presenter, and if  *)
(* that call raises the run ends before the raw rankers are called and     *)
(* nothing is written.  Unless a Presenter call raises, a run with a valid *)
(* panel calls the raw rankers, and whether it writes and what it writes   *)
(* follows from the raw results alone.                                     *)
(***************************************************************************)
C13_SnapshotFromRawOnly ==
    /\ PresenterOnlyProcessed
    /\ SnapshotFromRawOnly
    /\ (Terminated /\ PanelValid) =>
          IF PresenterRaised
          THEN /\ ~Called("rank_momentum_signals")
               /\ ~Called("rank_reversal_signals")
               /\ ~Called("os.makedirs") /\ ~Called("open") /\ ~Called("json.dump")
               /\ snapshot_file = prior_file
          ELSE Called("rank_momentum_signals")

\* The stats fetch raised, the processed momentum ranker gave a non-empty
\* set that was displayed, the processed reversal ranker raised, and the
\* snapshot written holds both sections of the raw results.
C13_Witness ==
    /\ Written
    /\ RaisedIn("generate_signal_report")
    /\ Gave("display_momentum_results", None)
    /\ RaisedIn("get_processed_reversal_results")
    /\ Len(snapshot_file.items) = 2
    /\ snapshot_file.items[1].value # <<>>
    /\ \A d \in CallsOf("display_momentum_results") :
          calls[d].args[1] # initial_momentum_ranked_data

\* The external steps in the order of the code; the snapshot file write is
\* the directory creation, the open and the dump.
StepOrder ==
    <<"run_momentum_analysis", "generate_signal_report",
      "get_processed_momentum_results", "get_processed_reversal_results",
      "display_momentum_results", "display_reversal_results",
      "rank_momentum_signals", "rank_reversal_signals",
      "os.makedirs", "open", "json.dump">>

StepRank(op) == CHOOSE k \in 1..Len(StepOrder) : StepOrder[k] = op

\* The position of the code at which the step of rank k is decided.
StepPosition(k) == IF StepOrder[k] = "os.makedirs" THEN "save_initial_results"
                   ELSE StepOrder[k]

(***************************************************************************)
(* C14.  Within a run the external steps occur in the fixed order          *)
(* IndicatorSource, OutcomeStatsSource, processed momentum ranker,         *)
(* processed reversal ranker, momentum display, reversal display, raw      *)
(* momentum ranker, raw reversal ranker, snapshot file write: every call   *)
(* made is one of these steps, each later call belongs to a strictly later *)
(* step (so each step occurs at most once and a failed step is never       *)
(* retried), every call has its outcome before the next is made, and when  *)
(* a step is made the run has been through every earlier step (each was    *)
(* completed, failed or skipped).                                          *)
(***************************************************************************)
C14_FixedStepOrder ==
    /\ \A i \in 1..Len(calls) :
          /\ \E k \in 1..Len(StepOrder) : StepOrder[k] = calls[i].op
          /\ calls[i].out.kind \in {"return", "raise"}
          /\ \A k \in 1..StepRank(calls[i].op) : StepPosition(k) \in reached
    /\ \A i, j \in 1..Len(calls) :
          i < j => StepRank(calls[i].op) < StepRank(calls[j].op)
    /\ \A i \in 1..Len(calls) :
          calls[i].out.kind = "raise" => \A j \in 1..Len(calls) :
              j # i => calls[j].op # calls[i].op

\* A run that made every step, in order, and wrote the snapshot.
C14_Witness ==
    /\ Written
    /\ Len(calls) = Len(StepOrder)
    /\ \A k \in 1..Len(StepOrder) : calls[k].op = StepOrder[k]

\* The positions of the code after the display step.
AfterDisplay ==
    {"rank_momentum_signals", "rank_reversal_signals", "save_initial_results",
     "open", "json.dump", "finished"}

(***************************************************************************)
(* C15.  An exception raised by the Presenter is caught only by the        *)
(* outermost boundary: the run returns normally with the outer error       *)
(* message as its last message and the failed display call as its last     *)
(* call, and no later step runs.  A momentum Presenter failure skips the   *)
(* reversal display; any Presenter failure skips both raw re-rank calls    *)
(* and the snapshot write, so the directory and the prior snapshot file    *)
(* are unchanged.                                                          *)
(***************************************************************************)
C15_PresenterFailureEndsRun ==
    PresenterRaised =>
        /\ pc = "caught"
        /\ calls[Len(calls)].op \in {"display_momentum_results", "display_reversal_results"}
        /\ calls[Len(calls)].out.kind = "raise"
        /\ logged[Len(logged)] = Msg("error", "An error occurred during orchestration")
        /\ \A i \in 1..(Len(logged) - 1) :
              logged[i].text # "An error occurred during orchestration"
        /\ reached \cap AfterDisplay = {}
        /\ RaisedIn("display_momentum_results") =>
              /\ ~Called("display_reversal_results")
              /\ "display_reversal_results" \notin reached
        /\ ~Called("rank_momentum_signals") /\ ~Called("rank_reversal_signals")
        /\ ~Called("os.makedirs") /\ ~Called("open") /\ ~Called("json.dump")
        /\ output_dir_exists = prior_dir_exists
        /\ snapshot_file = prior_file

\* The momentum Presenter raised while a non-empty reversal set was waiting
\* to be displayed and an earlier snapshot was on disk.
C15_Witness ==
    /\ RaisedIn("display_momentum_results")
    /\ pc = "caught"
    /\ NonEmptyTable(reversal_display_df)
    /\ ~Called("display_reversal_results")
    /\ prior_file.exists
    /\ snapshot_file = prior_file

\* The Presenter rule for one family: rank is its processed ranker, disp its
\* display function, position the display step and kept the processed set
\* the run holds.
PresenterRule(rank, disp, position, kept) ==
    /\ Cardinality(CallsOf(disp)) <= 1
    /\ \A d \in CallsOf(disp) :
          /\ calls[d].args = <<kept>>
          /\ NonEmptyTable(kept)
          /\ ~RaisedIn(rank)
          /\ Gave(rank, kept)
          /\ \A i \in CallsOf(rank) : i < d
    /\ (RaisedIn(rank) \/ \E i \in CallsOf(rank) :
            calls[i].out.kind = "return" /\ EmptyOrAbsent(calls[i].out.val)) =>
          EmptyOrAbsent(kept) /\ ~IsNone(kept) /\ ~Called(disp)
    /\ (position \in reached /\ pc # position /\ NonEmptyTable(kept)) =>
          Cardinality(CallsOf(disp)) = 1

(***************************************************************************)
(* C16.  The Presenter for a family is never invoked with an empty         *)
(* processed set nor after that family's processed ranker failed; and once *)
(* the run has been through a family's display step with a non-empty       *)
(* processed set, that family's Presenter has been invoked exactly once,   *)
(* with exactly the set its processed ranker returned.                     *)
(***************************************************************************)
C16_PresenterOnNonEmptyOnly ==
    /\ PresenterRule("get_processed_momentum_results", "display_momentum_results",
                     "display_momentum_results", momentum_display_df)
    /\ PresenterRule("get_processed_reversal_results", "display_reversal_results",
                     "display_reversal_results", reversal_display_df)

\* The processed momentum ranker raised and the processed reversal ranker
\* gave a non-empty set: the run went through both display steps, made no
\* momentum display call and exactly one reversal display call.
C16_Witness ==
    /\ RaisedIn("get_processed_momentum_results")
    /\ "rank_momentum_signals" \in reached
    /\ ~Called("display_momentum_results")
    /\ Cardinality(CallsOf("display_reversal_results")) = 1
    /\ \A d \in CallsOf("display_reversal_results") :
          Gave("get_processed_reversal_results", calls[d].args[1])

\* The section names in the snapshot file before the run.
PriorSections == {prior_file.items[k].key : k \in 1..Len(prior_file.items)}

\* The section names in the snapshot file now.
FileSections == {snapshot_file.items[k].key : k \in 1..Len(snapshot_file.items)}

(***************************************************************************)
(* C17.  Whenever a run successfully writes the snapshot, the file's       *)
(* content afterwards consists solely of this run's sections: it is the    *)
(* complete document of this run's raw results, one section per family     *)
(* with a non-empty raw set, and nothing of a prior snapshot survives, so  *)
(* a section of the prior file whose family produced an empty raw set in   *)
(* this run is absent afterwards.                                          *)
(***************************************************************************)
C17_SnapshotFullyReplaced ==
    Written =>
        /\ snapshot_file.exists /\ snapshot_file.complete
        /\ snapshot_file.items = RawDocument(initial_momentum_ranked_data,
                                             initial_reversal_ranked_data)
        /\ Len(snapshot_file.items) = Cardinality(NonEmptyFamilies)
        /\ FileSections = NonEmptyFamilies
        /\ \A key \in PriorSections : key \notin NonEmptyFamilies => key \notin FileSections

\* The prior file held both sections; this run's raw reversal set was empty,
\* and the file written holds the momentum section of this run only.
C17_Witness ==
    /\ Written
    /\ PriorSections = SectionKeys
    /\ ~NonEmptyTable(initial_reversal_ranked_data)
    /\ FileSections = {"rank_momentum_signals"}
    /\ Len(snapshot_file.items) = 1
    /\ snapshot_file.items[1] # prior_file.items[1]

\* Sequence a is a leading part of sequence b, and not all of it.
ProperPrefix(a, b) == Len(a) < Len(b) /\ a = SubSeq(b, 1, Len(a))

\* The complete snapshot document of this run, as a file.
ThisRunSnapshot ==
    FileWith(RawDocument(initial_momentum_ranked_data, initial_reversal_ranked_data), TRUE)

(***************************************************************************)
(* C18, as stated.  The snapshot file is never left in a partial state:    *)
(* after any run, including one in which directory creation or             *)
(* serialization fails part-way through the snapshot step, the snapshot    *)
(* file holds either exactly its pre-run content or a complete snapshot    *)
(* document of this run.                                                   *)
(***************************************************************************)
C18_AsStated ==
    Terminated => (snapshot_file = prior_file \/ snapshot_file = ThisRunSnapshot)

(***************************************************************************)
(* C18, amended.  After any run the snapshot file holds exactly its        *)
(* pre-run content if the run did not open it (also when directory         *)
(* creation, the flattening of a raw set or the open itself failed), a     *)
(* complete snapshot document of this run if the write returned, and       *)
(* otherwise, when the write failed after the file was opened, an          *)
(* incomplete document: a leading part of this run's document, possibly    *)
(* empty, the pre-run content being lost.                                  *)
(***************************************************************************)
C18_PartialOnlyAfterFailedWrite ==
    Terminated =>
        IF ~Opened THEN snapshot_file = prior_file
        ELSE IF Written THEN snapshot_file = ThisRunSnapshot
        ELSE /\ RaisedIn("json.dump")
             /\ snapshot_file.exists
             /\ ~snapshot_file.complete
             /\ ProperPrefix(snapshot_file.items, ThisRunSnapshot.items)

\* Over an earlier snapshot, the write of a two-section document failed
\* after the first section: the file is left with that section alone.
C18_Witness ==
    /\ pc = "finished"
    /\ prior_file.exists
    /\ Opened
    /\ ~Written
    /\ Cardinality(NonEmptyFamilies) = 2
    /\ Len(snapshot_file.items) = 1
    /\ snapshot_file # prior_file

\* What became of a processed ranker's absent result: the run keeps an empty
\* table in its place and the failure was logged by the ranker's own stage.
AbsentResultReplaced(rank, kept, text) ==
    Gave(rank, None) =>
        /\ kept = EmptyDataFrame
        /\ \E i \in 1..Len(logged) : logged[i] = Msg("error", text)

(***************************************************************************)
(* C19.  Whenever the run reaches the display step, both processed result  *)
(* variables hold a defined table, never an absent value: a processed      *)
(* ranker that returns an absent value instead of a table is turned into a *)
(* caught failure inside that ranker's own stage boundary and replaced by  *)
(* an empty set, so the emptiness tests of the display step never fail:    *)
(* the only way from the display step to the outermost handler is a        *)
(* Presenter call that raised.                                             *)
(***************************************************************************)
C19_DisplaySetsDefined ==
    /\ "display_momentum_results" \in reached =>
          /\ IsDataFrame(momentum_display_df)
          /\ IsDataFrame(reversal_display_df)
    /\ AbsentResultReplaced("get_processed_momentum_results", momentum_display_df,
                            "Error processing momentum signals")
    /\ AbsentResultReplaced("get_processed_reversal_results", reversal_display_df,
                            "Error processing reversal signals")
    /\ ("display_momentum_results" \in reached /\ pc \in {"caught", "raised"}) =>
          /\ PresenterRaised
          /\ calls[Len(calls)].out.kind = "raise"
          /\ calls[Len(calls)].out.exc # "AttributeError" \/
                calls[Len(calls)].op \in {"display_momentum_results",
                                          "display_reversal_results"}

\* Both processed rankers gave None; the run went through both display
\* steps without a display call and on to the raw re-ranking.
C19_Witness ==
    /\ Gave("get_processed_momentum_results", None)
    /\ Gave("get_processed_reversal_results", None)
    /\ momentum_display_df = EmptyDataFrame
    /\ reversal_display_df = EmptyDataFrame
    /\ "rank_momentum_signals" \in reached
    /\ ~Called("display_momentum_results")
    /\ ~Called("display_reversal_results")

=============================================================================
